---- MODULE Spec2Model ----
(***************************************************************************)
(* The PTY session manager of src-tauri/src/lib.rs: the session table and  *)
(* id counter of PtyState behind their two async mutexes, the commands     *)
(* create_pty_session, write_to_pty, resize_pty, close_pty_session and     *)
(* get_pty_foreground_process run by concurrent callers, and the reader    *)
(* thread each created session owns.                                       *)
(***************************************************************************)
EXTENDS Integers, Sequences, FiniteSets, TLC

\* ---------------------------------------------------------------- bounds
NumCallers == 2     \* concurrent command invocations
MaxId == 2          \* sessions created in one run (caps the u32 counter)
MaxReads == 2       \* non-empty reads per session
MaxLines == 2       \* lines of a process list given to the scan

Callers == 1..NumCallers
Ids == 1..MaxId
None == 0           \* no lock holder / no session id

\* Terminal sizes (rows, cols): what a caller passes to create, and what it
\* passes to resize.
CreateSizes == {<<24, 80>>}
Sizes == {<<24, 80>>, <<40, 120>>}

\* Bytes the pseudo-terminal hands to the reader: 'a', the lead byte of a
\* two-byte UTF-8 sequence (0xC3) and its continuation byte (0xA9). The two
\* chunks are a complete sequence followed by 'a', and the second half of a
\* sequence split across reads followed by the first half of the next.
ByteA == 97
ByteLead == 195
ByteCont == 169
Replacement == 65533    \* U+FFFD
CharE == 233            \* U+00E9, the decoding of 0xC3 0xA9
Chunks == {<<ByteLead, ByteCont, ByteA>>, <<ByteCont, ByteLead>>}

VARIABLES
    next_id,    \* PtyState.next_id: the counter behind its mutex
    sessions,   \* PtyState.sessions: id -> PtySession, a partial function
    lockId,     \* holder of the next_id mutex, or None
    lockTab,    \* holder of the sessions mutex, or None
    pc,         \* each caller's position in the command it runs
    arg,        \* each caller's command and arguments: [op, id, size]
    loc,        \* each caller's locals: [id, pid, sess, name]
    res,        \* each caller's return value, set when the command returns
    pty,        \* OS state of the pseudo-terminal of each allocated id
    rpc,        \* each reader thread's position
    buf,        \* each reader thread's last read
    reads,      \* history: the non-empty reads of each reader thread
    events,     \* the events emitted on each session's channels, in order
    created     \* history: the ids returned by create, in return order

vars == <<next_id, sessions, lockId, lockTab, pc, arg, loc, res, pty, rpc,
          buf, reads, events, created>>

\* ------------------------------------------------------------ pure parts

\* String::from_utf8_lossy on the byte alphabet above: a complete two-byte
\* sequence decodes to its character, an ASCII byte to itself, and every
\* byte that is not part of a valid sequence to U+FFFD.
RECURSIVE from_utf8_lossy(_)
from_utf8_lossy(bytes) ==
    IF bytes = <<>> THEN <<>>
    ELSE IF Head(bytes) < 128
         THEN <<Head(bytes)>> \o from_utf8_lossy(Tail(bytes))
    ELSE IF Head(bytes) = ByteLead /\ Len(bytes) >= 2 /\ bytes[2] = ByteCont
         THEN <<CharE>> \o from_utf8_lossy(Tail(Tail(bytes)))
    ELSE <<Replacement>> \o from_utf8_lossy(Tail(bytes))

OutputEvent(text) == [kind |-> "pty-output", text |-> text]
EndEvent == [kind |-> "pty-end", text |-> <<>>]

NoPty == [child |-> "none", master |-> "none", writer |-> "none", size |-> <<0, 0>>]
NoArg == [op |-> "none", id |-> None, size |-> <<0, 0>>]
\* A PtySession: its handles name the pseudo-terminal they belong to.
Session(i, pid) == [master |-> i, writer |-> i, child |-> i, child_pid |-> pid]
NoSession == Session(None, 0)
NoLoc == [id |-> None, pid |-> 0, sess |-> NoSession, name |-> <<>>, q |-> <<>>,
          out |-> [ok |-> FALSE, out |-> <<>>]]
\* Result<T, String>: Ok(v) carries v in val, Err(e) the message in err.
NoRes == [ok |-> TRUE, err |-> "unset", val |-> None]
Ok(v) == [ok |-> TRUE, err |-> "", val |-> v]
Err(e) == [ok |-> FALSE, err |-> e, val |-> None]

\* The pid the OS gave the shell of session i.
PidOf(i) == 100 + i

\* --------------------------------------- foreground resolver, pure parts
\* Text is a sequence of characters; the output of a ps query is
\* [ok |-> the command ran and exited with success, out |-> its stdout].
IsSpace(ch) == ch \in {" ", "\n"}

RECURSIVE TrimStart(_)
TrimStart(s) == IF s # <<>> /\ IsSpace(Head(s)) THEN TrimStart(Tail(s)) ELSE s

RECURSIVE TrimEnd(_)
TrimEnd(s) ==
    IF s # <<>> /\ IsSpace(s[Len(s)]) THEN TrimEnd(SubSeq(s, 1, Len(s) - 1)) ELSE s

\* str::trim
Trim(s) == TrimEnd(TrimStart(s))

\* name.split('/').last().unwrap_or(..): what follows the last '/'.
SplitLast(s) ==
    LET slashes == {k \in 1..Len(s) : s[k] = "/"}
    IN  IF slashes = {} THEN s
        ELSE SubSeq(s, (CHOOSE k \in slashes : \A j \in slashes : j <= k) + 1, Len(s))

\* name.strip_prefix('-').unwrap_or(name)
StripDash(s) == IF s # <<>> /\ Head(s) = "-" THEN Tail(s) ELSE s

Placeholder == <<"s", "h", "e", "l", "l">>

\* The shell name of lines 191-202: the normalised output of `ps -o comm=`,
\* or "shell" when the query did not succeed.
ShellName(o) == IF o.ok THEN StripDash(SplitLast(Trim(o.out))) ELSE Placeholder

\* The tty of lines 209-215: the trimmed output, or "" when the query failed.
TtyOf(o) == IF o.ok THEN Trim(o.out) ELSE <<>>

\* A scan that does not compare a line's pid with the shell's.
RECURSIVE FirstForeground_AnyPid(_, _, _)
FirstForeground_AnyPid(lines, shell_pid, shell_name) ==
    IF lines = <<>> THEN shell_name
    ELSE LET parts == Head(lines)
             name == StripDash(SplitLast(parts[3]))
         IN  IF /\ Len(parts) >= 3
                /\ \E k \in 1..Len(parts[2]) : parts[2][k] = "+"
                /\ name # shell_name
             THEN name
             ELSE FirstForeground_AnyPid(Tail(lines), shell_pid, shell_name)

\* Lines 229-245: the first line with at least three parts whose stat has a
\* '+', whose pid is not the shell's and whose normalised name is not the
\* shell name; the shell name when there is none. A line is its
\* whitespace-separated parts: the pid, the stat, the command.
RECURSIVE FirstForeground(_, _, _)
FirstForeground(lines, shell_pid, shell_name) ==
    IF lines = <<>> THEN shell_name
    ELSE LET parts == Head(lines)
             name == StripDash(SplitLast(parts[3]))
         IN  IF /\ Len(parts) >= 3
                /\ \E k \in 1..Len(parts[2]) : parts[2][k] = "+"
                /\ parts[1] # shell_pid
                /\ name # shell_name
             THEN name
             ELSE FirstForeground(Tail(lines), shell_pid, shell_name)

\* Lines 222-249 on the outcome of `ps -t tty -o pid=,stat=,comm=`.
Foreground(o, shell_pid, shell_name) ==
    IF o.ok THEN FirstForeground(o.out, shell_pid, shell_name) ELSE shell_name

\* Outcomes of the three queries.
Failed == [ok |-> FALSE, out |-> <<>>]
PsComm == {Failed, [ok |-> TRUE, out |-> <<"-", "z", "\n">>]}
PsTty == {Failed,
          [ok |-> TRUE, out |-> <<"?", "?", "\n">>],
          [ok |-> TRUE, out |-> <<"t", "\n">>]}
PsList(shell_pid) ==
    {Failed,
     [ok |-> TRUE, out |-> << <<shell_pid, <<"S", "s", "+">>, <<"-", "z">>>> >>],
     [ok |-> TRUE, out |-> << <<shell_pid, <<"S", "s">>, <<"-", "z">>>>,
                              <<shell_pid + 1, <<"S", "+">>, <<"/", "b", "/", "v">>>> >>]}

\* ------------------------------------------------------------------ Init
\* PtyState::default(): an empty table and the counter at 1.
Init ==
    /\ next_id = 1
    /\ sessions = <<>>
    /\ lockId = None
    /\ lockTab = None
    /\ pc = [c \in Callers |-> "idle"]
    /\ arg = [c \in Callers |-> NoArg]
    /\ loc = [c \in Callers |-> NoLoc]
    /\ res = [c \in Callers |-> NoRes]
    /\ pty = [i \in Ids |-> NoPty]
    /\ rpc = [i \in Ids |-> "none"]
    /\ buf = [i \in Ids |-> <<>>]
    /\ reads = [i \in Ids |-> <<>>]
    /\ events = [i \in Ids |-> <<>>]
    /\ created = <<>>

\* --------------------------------------------------------------- helpers
\* HashMap::insert and HashMap::remove on the table.
Insert(tab, i, s) == [j \in DOMAIN tab \cup {i} |-> IF j = i THEN s ELSE tab[j]]
Remove(tab, i) == [j \in DOMAIN tab \ {i} |-> tab[j]]

\* Creates that have not yet taken their id from the counter.
PreAlloc == {"c_openpty", "c_spawn", "c_take_writer", "c_clone_reader",
             "c_lock_id", "c_read_id", "c_incr_id"}
InFlight == Cardinality({c \in Callers : pc[c] \in PreAlloc})

\* A command returns e before it has changed anything but its own locals.
Fail(c, e) ==
    /\ pc' = [pc EXCEPT ![c] = "ret"]
    /\ res' = [res EXCEPT ![c] = Err(e)]

Goto(c, l) ==
    /\ pc' = [pc EXCEPT ![c] = l]
    /\ UNCHANGED res

\* ------------------------------------------------- create_pty_session
CreateCall(c) ==
    /\ pc[c] = "idle"
    /\ next_id + InFlight <= MaxId
    /\ \E sz \in CreateSizes :
         arg' = [arg EXCEPT ![c] = [op |-> "create", id |-> None, size |-> sz]]
    /\ pc' = [pc EXCEPT ![c] = "c_openpty"]
    /\ UNCHANGED <<next_id, sessions, lockId, lockTab, loc, res, pty, rpc, buf,
                   reads, events, created>>

\* pty_system.openpty(..).map_err(..)?
OpenPty(c) ==
    /\ pc[c] = "c_openpty"
    /\ \/ Goto(c, "c_spawn")
       \/ Fail(c, "Failed to open pty")
    /\ UNCHANGED <<next_id, sessions, lockId, lockTab, arg, loc, pty, rpc, buf,
                   reads, events, created>>

\* pair.slave.spawn_command(cmd).map_err(..)?
SpawnCommand(c) ==
    /\ pc[c] = "c_spawn"
    /\ \/ Goto(c, "c_take_writer")
       \/ Fail(c, "Failed to spawn command")
    /\ UNCHANGED <<next_id, sessions, lockId, lockTab, arg, loc, pty, rpc, buf,
                   reads, events, created>>

\* pair.master.take_writer().map_err(..)?
TakeWriter(c) ==
    /\ pc[c] = "c_take_writer"
    /\ \/ Goto(c, "c_clone_reader")
       \/ Fail(c, "Failed to get writer")
    /\ UNCHANGED <<next_id, sessions, lockId, lockTab, arg, loc, pty, rpc, buf,
                   reads, events, created>>

\* A create that starts the reader thread before its last fallible step: the
\* failure leaves the thread of the next id running.
CloneReader_ThreadFirst(c) ==
    /\ pc[c] = "c_clone_reader"
    /\ \/ /\ Goto(c, "c_lock_id")
          /\ UNCHANGED rpc
       \/ /\ Fail(c, "Failed to get reader")
          /\ rpc' = [rpc EXCEPT ![next_id] = "reading"]
    /\ UNCHANGED <<next_id, sessions, lockId, lockTab, arg, loc, pty, buf,
                   reads, events, created>>

\* pair.master.try_clone_reader().map_err(..)?
CloneReader(c) ==
    /\ pc[c] = "c_clone_reader"
    /\ \/ Goto(c, "c_lock_id")
       \/ Fail(c, "Failed to get reader")
    /\ UNCHANGED <<next_id, sessions, lockId, lockTab, arg, loc, pty, rpc, buf,
                   reads, events, created>>

\* A create that reads and increments the counter without its mutex.
LockNextId_NoLock(c) ==
    /\ pc[c] = "c_lock_id"
    /\ Goto(c, "c_read_id")
    /\ UNCHANGED <<next_id, sessions, lockId, lockTab, arg, loc, pty, rpc, buf,
                   reads, events, created>>

\* let mut next_id = state.next_id.lock().await; the guard lives to the end
\* of the function.
LockNextId(c) ==
    /\ pc[c] = "c_lock_id"
    /\ lockId = None
    /\ lockId' = c
    /\ Goto(c, "c_read_id")
    /\ UNCHANGED <<next_id, sessions, lockTab, arg, loc, pty, rpc, buf, reads,
                   events, created>>

\* A counter that hands a closed session's id out again: the smallest id
\* with no table entry instead of the counter's value.
ReadNextId_Reuse(c) ==
    /\ pc[c] = "c_read_id"
    /\ LET free == {i \in Ids : i \notin DOMAIN sessions}
           id == IF free = {} THEN next_id ELSE CHOOSE i \in free : \A j \in free : i <= j
       IN  /\ loc' = [loc EXCEPT ![c].id = id]
           /\ pty' = [pty EXCEPT ![id] =
                        [child |-> "running", master |-> "open", writer |-> "open",
                         size |-> arg[c].size]]
    /\ Goto(c, "c_incr_id")
    /\ UNCHANGED <<next_id, sessions, lockId, lockTab, arg, rpc, buf, reads,
                   events, created>>

\* let session_id = *next_id; from here on the pseudo-terminal opened above
\* is known by this id.
ReadNextId(c) ==
    /\ pc[c] = "c_read_id"
    /\ loc' = [loc EXCEPT ![c].id = next_id]
    /\ pty' = [pty EXCEPT ![next_id] =
                 [child |-> "running", master |-> "open", writer |-> "open",
                  size |-> arg[c].size]]
    /\ Goto(c, "c_incr_id")
    /\ UNCHANGED <<next_id, sessions, lockId, lockTab, arg, rpc, buf, reads,
                   events, created>>

\* *next_id += 1;
IncrNextId(c) ==
    /\ pc[c] = "c_incr_id"
    /\ next_id' = next_id + 1
    /\ Goto(c, "c_thread")
    /\ UNCHANGED <<sessions, lockId, lockTab, arg, loc, pty, rpc, buf, reads,
                   events, created>>

\* thread::spawn(move || { loop { .. } }): the reader thread starts.
SpawnReader(c) ==
    /\ pc[c] = "c_thread"
    /\ rpc' = [rpc EXCEPT ![loc[c].id] = "reading"]
    /\ Goto(c, "c_assemble")
    /\ UNCHANGED <<next_id, sessions, lockId, lockTab, arg, loc, pty, buf, reads,
                   events, created>>

\* let child_pid = child.process_id().unwrap_or(0); let session = PtySession{..}
AssembleSession(c) ==
    /\ pc[c] = "c_assemble"
    /\ \E p \in {0, PidOf(loc[c].id)} :
         loc' = [loc EXCEPT ![c].pid = p, ![c].sess = Session(loc[c].id, p)]
    /\ Goto(c, "c_insert")
    /\ UNCHANGED <<next_id, sessions, lockId, lockTab, arg, pty, rpc, buf, reads,
                   events, created>>

\* let mut sessions = state.sessions.lock().await;
\* sessions.insert(session_id, session); Ok(session_id)
InsertSession(c) ==
    /\ pc[c] = "c_insert"
    /\ lockTab = None
    /\ lockTab' = c
    /\ sessions' = Insert(sessions, loc[c].id, loc[c].sess)
    /\ pc' = [pc EXCEPT ![c] = "ret"]
    /\ res' = [res EXCEPT ![c] = Ok(loc[c].id)]
    /\ UNCHANGED <<next_id, lockId, arg, loc, pty, rpc, buf, reads, events,
                   created>>

\* The command returns: the guards it still holds are dropped and the caller
\* has the result.
Return(c) ==
    /\ pc[c] = "ret"
    /\ lockId' = IF lockId = c THEN None ELSE lockId
    /\ lockTab' = IF lockTab = c THEN None ELSE lockTab
    /\ created' = IF arg[c].op = "create" /\ res[c].ok
                  THEN Append(created, res[c].val) ELSE created
    /\ pc' = [pc EXCEPT ![c] = "idle"]
    /\ arg' = [arg EXCEPT ![c] = NoArg]
    /\ loc' = [loc EXCEPT ![c] = NoLoc]
    /\ res' = [res EXCEPT ![c] = NoRes]
    /\ UNCHANGED <<next_id, sessions, pty, rpc, buf, reads, events>>

\* ------------------------------------------------------- reader thread
\* reader.read(&mut buf): a chunk while the terminal has output, Ok(0) at
\* end of stream once the shell is gone, or an error.
ReaderRead(i) ==
    /\ rpc[i] = "reading"
    /\ \/ /\ Len(reads[i]) < MaxReads
          /\ \E ch \in Chunks :
               /\ buf' = [buf EXCEPT ![i] = ch]
               /\ reads' = [reads EXCEPT ![i] = Append(@, ch)]
          /\ rpc' = [rpc EXCEPT ![i] = "got_n"]
       \/ /\ pty[i].child # "running"
          /\ rpc' = [rpc EXCEPT ![i] = "got_0"]
          /\ UNCHANGED <<buf, reads>>
       \/ /\ rpc' = [rpc EXCEPT ![i] = "got_err"]
          /\ UNCHANGED <<buf, reads>>
    /\ UNCHANGED <<next_id, sessions, lockId, lockTab, pc, arg, loc, res, pty,
                   events, created>>

\* A reader that takes its session out of the table when the stream ends.
ReaderEmit_Evict(i) ==
    /\ \/ /\ rpc[i] = "got_n"
          /\ events' = [events EXCEPT ![i] = Append(@, OutputEvent(from_utf8_lossy(buf[i])))]
          /\ rpc' = [rpc EXCEPT ![i] = "reading"]
          /\ UNCHANGED sessions
       \/ /\ rpc[i] \in {"got_0", "got_err"}
          /\ events' = [events EXCEPT ![i] = Append(@, EndEvent)]
          /\ rpc' = [rpc EXCEPT ![i] = "done"]
          /\ sessions' = Remove(sessions, i)
    /\ buf' = [buf EXCEPT ![i] = <<>>]
    /\ UNCHANGED <<next_id, lockId, lockTab, pc, arg, loc, res, pty,
                   reads, created>>

\* A reader that hands its events over newest first.
ReaderEmit_Prepend(i) ==
    /\ \/ /\ rpc[i] = "got_n"
          /\ events' = [events EXCEPT ![i] = <<OutputEvent(from_utf8_lossy(buf[i]))>> \o @]
          /\ rpc' = [rpc EXCEPT ![i] = "reading"]
       \/ /\ rpc[i] \in {"got_0", "got_err"}
          /\ events' = [events EXCEPT ![i] = Append(@, EndEvent)]
          /\ rpc' = [rpc EXCEPT ![i] = "done"]
    /\ buf' = [buf EXCEPT ![i] = <<>>]
    /\ UNCHANGED <<next_id, sessions, lockId, lockTab, pc, arg, loc, res, pty,
                   reads, created>>

\* A reader whose end-of-stream arm has no break: it reads again after the
\* end event.
ReaderEmit_NoBreak(i) ==
    /\ \/ /\ rpc[i] = "got_n"
          /\ events' = [events EXCEPT ![i] = Append(@, OutputEvent(from_utf8_lossy(buf[i])))]
          /\ rpc' = [rpc EXCEPT ![i] = "reading"]
       \/ /\ rpc[i] = "got_0"
          /\ Len(events[i]) <= MaxReads + 1
          /\ events' = [events EXCEPT ![i] = Append(@, EndEvent)]
          /\ rpc' = [rpc EXCEPT ![i] = "reading"]
       \/ /\ rpc[i] = "got_err"
          /\ events' = [events EXCEPT ![i] = Append(@, EndEvent)]
          /\ rpc' = [rpc EXCEPT ![i] = "done"]
    /\ buf' = [buf EXCEPT ![i] = <<>>]
    /\ UNCHANGED <<next_id, sessions, lockId, lockTab, pc, arg, loc, res, pty,
                   reads, created>>

\* The arm of the match: emit pty-output-{id} with the decoded text and loop,
\* or emit pty-end-{id} and break.
ReaderEmit(i) ==
    /\ \/ /\ rpc[i] = "got_n"
          /\ events' = [events EXCEPT ![i] = Append(@, OutputEvent(from_utf8_lossy(buf[i])))]
          /\ rpc' = [rpc EXCEPT ![i] = "reading"]
       \/ /\ rpc[i] \in {"got_0", "got_err"}
          /\ events' = [events EXCEPT ![i] = Append(@, EndEvent)]
          /\ rpc' = [rpc EXCEPT ![i] = "done"]
    /\ buf' = [buf EXCEPT ![i] = <<>>]
    /\ UNCHANGED <<next_id, sessions, lockId, lockTab, pc, arg, loc, res, pty,
                   reads, created>>

\* The shell process exits on its own.
ChildExit(i) ==
    /\ pty[i].child = "running"
    /\ pty' = [pty EXCEPT ![i].child = "exited"]
    /\ UNCHANGED <<next_id, sessions, lockId, lockTab, pc, arg, loc, res, rpc,
                   buf, reads, events, created>>

\* ---------------------------------------------------------- write_to_pty
WriteCall(c) ==
    /\ pc[c] = "idle"
    /\ \E i \in Ids : arg' = [arg EXCEPT ![c] = [op |-> "write", id |-> i, size |-> <<0, 0>>]]
    /\ pc' = [pc EXCEPT ![c] = "w_lock"]
    /\ UNCHANGED <<next_id, sessions, lockId, lockTab, loc, res, pty, rpc, buf,
                   reads, events, created>>

\* A write that clones the handle and gives the table lock back before its
\* I/O.
WriteLookup_Unlocked(c) ==
    /\ pc[c] = "w_lock"
    /\ lockTab = None
    /\ IF arg[c].id \in DOMAIN sessions
       THEN /\ loc' = [loc EXCEPT ![c].sess = sessions[arg[c].id]]
            /\ Goto(c, "w_write_all")
       ELSE /\ Fail(c, "Session not found")
            /\ UNCHANGED loc
    /\ UNCHANGED <<next_id, sessions, lockId, lockTab, arg, pty, rpc, buf, reads,
                   events, created>>

\* A write that reports success for an id it did not find.
WriteLookup_Silent(c) ==
    /\ pc[c] = "w_lock"
    /\ lockTab = None
    /\ lockTab' = c
    /\ IF arg[c].id \in DOMAIN sessions
       THEN /\ loc' = [loc EXCEPT ![c].sess = sessions[arg[c].id]]
            /\ Goto(c, "w_write_all")
       ELSE /\ pc' = [pc EXCEPT ![c] = "ret"]
            /\ res' = [res EXCEPT ![c] = Ok(None)]
            /\ UNCHANGED loc
    /\ UNCHANGED <<next_id, sessions, lockId, arg, pty, rpc, buf, reads, events,
                   created>>

\* let mut sessions = state.sessions.lock().await;
\* if let Some(session) = sessions.get_mut(&session_id) { .. } else { Err(..) }
WriteLookup(c) ==
    /\ pc[c] = "w_lock"
    /\ lockTab = None
    /\ lockTab' = c
    /\ IF arg[c].id \in DOMAIN sessions
       THEN /\ loc' = [loc EXCEPT ![c].sess = sessions[arg[c].id]]
            /\ Goto(c, "w_write_all")
       ELSE /\ Fail(c, "Session not found")
            /\ UNCHANGED loc
    /\ UNCHANGED <<next_id, sessions, lockId, arg, pty, rpc, buf, reads, events,
                   created>>

\* A write that drops the session from the table when the write fails.
WriteAll_Evict(c) ==
    /\ pc[c] = "w_write_all"
    /\ \/ /\ Goto(c, "w_flush")
          /\ UNCHANGED sessions
       \/ /\ Fail(c, "Write error")
          /\ sessions' = Remove(sessions, arg[c].id)
    /\ UNCHANGED <<next_id, lockId, lockTab, arg, loc, pty, rpc, buf,
                   reads, events, created>>

\* A write that takes the id-counter lock for its I/O while it holds the
\* table lock.
WriteAll_LockId(c) ==
    /\ pc[c] = "w_write_all"
    /\ lockId = None
    /\ \/ Goto(c, "w_flush")
       \/ Fail(c, "Write error")
    /\ UNCHANGED <<next_id, sessions, lockId, lockTab, arg, loc, pty, rpc, buf,
                   reads, events, created>>

\* session.writer.write_all(data.as_bytes()).map_err(..)?
WriteAll(c) ==
    /\ pc[c] = "w_write_all"
    /\ \/ Goto(c, "w_flush")
       \/ Fail(c, "Write error")
    /\ UNCHANGED <<next_id, sessions, lockId, lockTab, arg, loc, pty, rpc, buf,
                   reads, events, created>>

\* session.writer.flush().map_err(..)?; Ok(())
Flush(c) ==
    /\ pc[c] = "w_flush"
    /\ \/ /\ pc' = [pc EXCEPT ![c] = "ret"]
          /\ res' = [res EXCEPT ![c] = Ok(None)]
       \/ Fail(c, "Flush error")
    /\ UNCHANGED <<next_id, sessions, lockId, lockTab, arg, loc, pty, rpc, buf,
                   reads, events, created>>

\* ------------------------------------------------------------ resize_pty
ResizeCall(c) ==
    /\ pc[c] = "idle"
    /\ \E i \in Ids, sz \in Sizes :
         arg' = [arg EXCEPT ![c] = [op |-> "resize", id |-> i, size |-> sz]]
    /\ pc' = [pc EXCEPT ![c] = "r_lock"]
    /\ UNCHANGED <<next_id, sessions, lockId, lockTab, loc, res, pty, rpc, buf,
                   reads, events, created>>

\* A resize that gives the table lock back after the lookup, before the call
\* on the handle.
ResizeLookup_Unlocked(c) ==
    /\ pc[c] = "r_lock"
    /\ lockTab = None
    /\ IF arg[c].id \in DOMAIN sessions
       THEN /\ loc' = [loc EXCEPT ![c].sess = sessions[arg[c].id]]
            /\ Goto(c, "r_resize")
       ELSE /\ Fail(c, "Session not found")
            /\ UNCHANGED loc
    /\ UNCHANGED <<next_id, sessions, lockId, lockTab, arg, pty, rpc, buf, reads,
                   events, created>>

\* let sessions = state.sessions.lock().await;
\* if let Some(session) = sessions.get(&session_id) { .. } else { Err(..) }
ResizeLookup(c) ==
    /\ pc[c] = "r_lock"
    /\ lockTab = None
    /\ lockTab' = c
    /\ IF arg[c].id \in DOMAIN sessions
       THEN /\ loc' = [loc EXCEPT ![c].sess = sessions[arg[c].id]]
            /\ Goto(c, "r_resize")
       ELSE /\ Fail(c, "Session not found")
            /\ UNCHANGED loc
    /\ UNCHANGED <<next_id, sessions, lockId, arg, pty, rpc, buf, reads, events,
                   created>>

\* A resize that sets the dimensions of every open pseudo-terminal, not only
\* of the session it looked up.
ResizeMaster_All(c) ==
    /\ pc[c] = "r_resize"
    /\ \/ /\ pty' = [i \in Ids |->
                       IF pty[i].master = "open"
                       THEN [pty[i] EXCEPT !.size = arg[c].size] ELSE pty[i]]
          /\ pc' = [pc EXCEPT ![c] = "ret"]
          /\ res' = [res EXCEPT ![c] = Ok(None)]
       \/ /\ Fail(c, "Resize error")
          /\ UNCHANGED pty
    /\ UNCHANGED <<next_id, sessions, lockId, lockTab, arg, loc, rpc, buf, reads,
                   events, created>>

\* session.master.resize(PtySize{..}).map_err(..)?; Ok(())
ResizeMaster(c) ==
    /\ pc[c] = "r_resize"
    /\ \/ /\ pty' = [pty EXCEPT ![loc[c].sess.master].size = arg[c].size]
          /\ pc' = [pc EXCEPT ![c] = "ret"]
          /\ res' = [res EXCEPT ![c] = Ok(None)]
       \/ /\ Fail(c, "Resize error")
          /\ UNCHANGED pty
    /\ UNCHANGED <<next_id, sessions, lockId, lockTab, arg, loc, rpc, buf, reads,
                   events, created>>

\* ----------------------------------------------------- close_pty_session
CloseCall(c) ==
    /\ pc[c] = "idle"
    /\ \E i \in Ids : arg' = [arg EXCEPT ![c] = [op |-> "close", id |-> i, size |-> <<0, 0>>]]
    /\ pc' = [pc EXCEPT ![c] = "cl_remove"]
    /\ UNCHANGED <<next_id, sessions, lockId, lockTab, loc, res, pty, rpc, buf,
                   reads, events, created>>

\* A close that reports an id it did not find, as write and resize do.
CloseRemove_Strict(c) ==
    /\ pc[c] = "cl_remove"
    /\ lockTab = None
    /\ IF arg[c].id \in DOMAIN sessions
       THEN /\ loc' = [loc EXCEPT ![c].sess = sessions[arg[c].id]]
            /\ sessions' = Remove(sessions, arg[c].id)
            /\ Goto(c, "cl_kill")
       ELSE /\ Fail(c, "Session not found")
            /\ UNCHANGED <<loc, sessions>>
    /\ UNCHANGED <<next_id, lockId, lockTab, arg, pty, rpc, buf, reads, events,
                   created>>

\* let session = { let mut sessions = state.sessions.lock().await;
\*                 sessions.remove(&session_id) };
\* the guard is dropped at the end of the block; None goes straight to Ok(()).
CloseRemove(c) ==
    /\ pc[c] = "cl_remove"
    /\ lockTab = None
    /\ IF arg[c].id \in DOMAIN sessions
       THEN /\ loc' = [loc EXCEPT ![c].sess = sessions[arg[c].id]]
            /\ sessions' = Remove(sessions, arg[c].id)
            /\ Goto(c, "cl_kill")
       ELSE /\ pc' = [pc EXCEPT ![c] = "ret"]
            /\ res' = [res EXCEPT ![c] = Ok(None)]
            /\ UNCHANGED <<loc, sessions>>
    /\ UNCHANGED <<next_id, lockId, lockTab, arg, pty, rpc, buf, reads, events,
                   created>>

\* A close that releases the handles of an entry it leaves in the table.
CloseKill_Reinsert(c) ==
    /\ pc[c] = "cl_kill"
    /\ pty' = [pty EXCEPT ![loc[c].sess.child].child =
                 IF @ = "running" THEN "killed" ELSE @]
    /\ sessions' = Insert(sessions, arg[c].id, loc[c].sess)
    /\ Goto(c, "cl_drop_master")
    /\ UNCHANGED <<next_id, lockId, lockTab, arg, loc, rpc, buf, reads,
                   events, created>>

\* A close that hands a failed termination request to its caller
\* (session.child.kill().map_err(..)?).
CloseKill_Propagate(c) ==
    /\ pc[c] = "cl_kill"
    /\ IF pty[loc[c].sess.child].child = "running"
       THEN /\ pty' = [pty EXCEPT ![loc[c].sess.child].child = "killed"]
            /\ Goto(c, "cl_drop_master")
       ELSE /\ Fail(c, "Kill error")
            /\ UNCHANGED pty
    /\ UNCHANGED <<next_id, sessions, lockId, lockTab, arg, loc, rpc, buf, reads,
                   events, created>>

\* A close that releases the handles without a termination request.
CloseKill_NoKill(c) ==
    /\ pc[c] = "cl_kill"
    /\ Goto(c, "cl_drop_master")
    /\ UNCHANGED <<next_id, sessions, lockId, lockTab, arg, loc, pty, rpc, buf,
                   reads, events, created>>

\* let _ = session.child.kill(); a shell that already exited makes kill
\* fail, and the failure is dropped.
CloseKill(c) ==
    /\ pc[c] = "cl_kill"
    /\ pty' = [pty EXCEPT ![loc[c].sess.child].child =
                 IF @ = "running" THEN "killed" ELSE @]
    /\ Goto(c, "cl_drop_master")
    /\ UNCHANGED <<next_id, sessions, lockId, lockTab, arg, loc, rpc, buf, reads,
                   events, created>>

\* drop(session.master);
DropMaster(c) ==
    /\ pc[c] = "cl_drop_master"
    /\ pty' = [pty EXCEPT ![loc[c].sess.master].master = "dropped"]
    /\ Goto(c, "cl_drop_writer")
    /\ UNCHANGED <<next_id, sessions, lockId, lockTab, arg, loc, rpc, buf, reads,
                   events, created>>

\* A close that joins the reader thread before it returns.
DropWriter_Join(c) ==
    /\ pc[c] = "cl_drop_writer"
    /\ rpc[arg[c].id] = "done"
    /\ pty' = [pty EXCEPT ![loc[c].sess.writer].writer = "dropped"]
    /\ pc' = [pc EXCEPT ![c] = "ret"]
    /\ res' = [res EXCEPT ![c] = Ok(None)]
    /\ UNCHANGED <<next_id, sessions, lockId, lockTab, arg, loc, rpc, buf, reads,
                   events, created>>

\* drop(session.writer); Ok(())
DropWriter(c) ==
    /\ pc[c] = "cl_drop_writer"
    /\ pty' = [pty EXCEPT ![loc[c].sess.writer].writer = "dropped"]
    /\ pc' = [pc EXCEPT ![c] = "ret"]
    /\ res' = [res EXCEPT ![c] = Ok(None)]
    /\ UNCHANGED <<next_id, sessions, lockId, lockTab, arg, loc, rpc, buf, reads,
                   events, created>>

\* -------------------------------------------- get_pty_foreground_process
FgCall(c) ==
    /\ pc[c] = "idle"
    /\ \E i \in Ids : arg' = [arg EXCEPT ![c] = [op |-> "foreground", id |-> i, size |-> <<0, 0>>]]
    /\ pc' = [pc EXCEPT ![c] = "fg_lookup"]
    /\ UNCHANGED <<next_id, sessions, lockId, lockTab, loc, res, pty, rpc, buf,
                   reads, events, created>>

\* let child_pid = { let sessions = state.sessions.lock().await;
\*                   sessions.get(&session_id).map(|s| s.child_pid) };
\* let Some(shell_pid) = child_pid else { return Err("Session not found") };
FgLookup(c) ==
    /\ pc[c] = "fg_lookup"
    /\ lockTab = None
    /\ IF arg[c].id \in DOMAIN sessions
       THEN /\ loc' = [loc EXCEPT ![c].pid = sessions[arg[c].id].child_pid]
            /\ Goto(c, "fg_comm")
       ELSE /\ Fail(c, "Session not found")
            /\ UNCHANGED loc
    /\ UNCHANGED <<next_id, sessions, lockId, lockTab, arg, pty, rpc, buf, reads,
                   events, created>>

\* A resolver that tests the recorded pid before its first query.
FgComm_ZeroFirst(c) ==
    /\ pc[c] = "fg_comm"
    /\ IF loc[c].pid = 0
       THEN /\ pc' = [pc EXCEPT ![c] = "ret"]
            /\ res' = [res EXCEPT ![c] = Ok(Placeholder)]
            /\ UNCHANGED loc
       ELSE /\ \E o \in PsComm :
                 loc' = [loc EXCEPT ![c].name = ShellName(o),
                                    ![c].q = Append(@, "comm")]
            /\ Goto(c, "fg_tty")
    /\ UNCHANGED <<next_id, sessions, lockId, lockTab, arg, pty, rpc, buf, reads,
                   events, created>>

\* The blocking task, first query: ps -o comm= -p shell_pid, then
\* if shell_pid == 0 { return shell_name; }. loc.q lists the queries run.
FgComm(c) ==
    /\ pc[c] = "fg_comm"
    /\ \E o \in PsComm :
         IF loc[c].pid = 0
         THEN /\ pc' = [pc EXCEPT ![c] = "ret"]
              /\ res' = [res EXCEPT ![c] = Ok(ShellName(o))]
              /\ loc' = [loc EXCEPT ![c].q = Append(@, "comm")]
         ELSE /\ loc' = [loc EXCEPT ![c].name = ShellName(o),
                                    ![c].q = Append(@, "comm")]
              /\ Goto(c, "fg_tty")
    /\ UNCHANGED <<next_id, sessions, lockId, lockTab, arg, pty, rpc, buf, reads,
                   events, created>>

\* Second query: ps -o tty= -p shell_pid, then
\* if tty.is_empty() || tty == "??" { return shell_name; }
FgTty(c) ==
    /\ pc[c] = "fg_tty"
    /\ \E o \in PsTty :
         IF TtyOf(o) = <<>> \/ TtyOf(o) = <<"?", "?">>
         THEN /\ pc' = [pc EXCEPT ![c] = "ret"]
              /\ res' = [res EXCEPT ![c] = Ok(loc[c].name)]
         ELSE Goto(c, "fg_list")
    /\ loc' = [loc EXCEPT ![c].q = Append(@, "tty")]
    /\ UNCHANGED <<next_id, sessions, lockId, lockTab, arg, pty, rpc, buf, reads,
                   events, created>>

\* A resolver that hands a failed list query to its caller as an error.
FgList_Propagate(c) ==
    /\ pc[c] = "fg_list"
    /\ \E o \in PsList(loc[c].pid) :
         /\ res' = [res EXCEPT ![c] =
                      IF o.ok THEN Ok(Foreground(o, loc[c].pid, loc[c].name))
                      ELSE Err("Process query failed")]
         /\ loc' = [loc EXCEPT ![c].q = Append(@, "list"), ![c].out = o]
    /\ pc' = [pc EXCEPT ![c] = "ret"]
    /\ UNCHANGED <<next_id, sessions, lockId, lockTab, arg, pty, rpc, buf, reads,
                   events, created>>

\* Third query: ps -t tty -o pid=,stat=,comm=, and the scan of its lines.
\* loc.out is the local ps_output.
FgList(c) ==
    /\ pc[c] = "fg_list"
    /\ \E o \in PsList(loc[c].pid) :
         /\ res' = [res EXCEPT ![c] = Ok(Foreground(o, loc[c].pid, loc[c].name))]
         /\ loc' = [loc EXCEPT ![c].q = Append(@, "list"), ![c].out = o]
    /\ pc' = [pc EXCEPT ![c] = "ret"]
    /\ UNCHANGED <<next_id, sessions, lockId, lockTab, arg, pty, rpc, buf, reads,
                   events, created>>

\* Lines 226-249 on their own: the scan of a ps_output already obtained.
FgScan(c) ==
    /\ pc[c] = "fg_scan"
    /\ res' = [res EXCEPT ![c] = Ok(Foreground(loc[c].out, loc[c].pid, loc[c].name))]
    /\ pc' = [pc EXCEPT ![c] = "ret"]
    /\ UNCHANGED <<next_id, sessions, lockId, lockTab, arg, loc, pty, rpc, buf,
                   reads, events, created>>

\* The same query made again while the process data are what they were: its
\* three ps calls give the shell name and the list they gave before.
FgAgain(c) ==
    /\ pc[c] = "ret"
    /\ arg[c].op = "foreground"
    /\ res[c].ok
    /\ loc[c].q = <<"comm", "tty", "list">>
    /\ pc' = [pc EXCEPT ![c] = "fg_scan"]
    /\ UNCHANGED <<next_id, sessions, lockId, lockTab, arg, loc, res, pty, rpc,
                   buf, reads, events, created>>

\* ------------------------------------------------------------------ Next
\* One step of create, write or close run by caller c.
Lifecycle(c) ==
    \/ CreateCall(c) \/ OpenPty(c) \/ SpawnCommand(c) \/ TakeWriter(c)
    \/ CloneReader(c) \/ LockNextId(c) \/ ReadNextId(c) \/ IncrNextId(c)
    \/ SpawnReader(c) \/ AssembleSession(c) \/ InsertSession(c)
    \/ WriteCall(c) \/ WriteLookup(c) \/ WriteAll(c) \/ Flush(c)
    \/ CloseCall(c) \/ CloseRemove(c) \/ CloseKill(c) \/ DropMaster(c)
    \/ DropWriter(c)
    \/ Return(c)

\* One step of any command run by caller c.
Command(c) ==
    \/ Lifecycle(c)
    \/ ResizeCall(c) \/ ResizeLookup(c) \/ ResizeMaster(c)
    \/ FgCall(c) \/ FgLookup(c) \/ FgComm(c) \/ FgTty(c) \/ FgList(c)

\* One step of the reader thread of session i.
Reader(i) == ReaderRead(i) \/ ReaderEmit(i)

\* The commands of all callers, interleaved step by step, and the shells.
\* The reader threads are started but not run: no command reads what a reader
\* thread writes (rpc, buf, reads, events), so the commands behave the same
\* whether or not the readers run.
Next ==
    \/ \E c \in Callers : Command(c)
    \/ \E i \in Ids : ChildExit(i)

Spec == Init /\ [][Next]_vars

\* The sessions' lives: create, write and close by one caller, the reader
\* threads and the shells. Resize and the foreground query touch neither a
\* reader thread nor the stream it reads.
NextSession ==
    \/ Lifecycle(1)
    \/ \E i \in Ids : Reader(i)
    \/ \E i \in Ids : ChildExit(i)

SpecSession == Init /\ [][NextSession]_vars

\* Every command, run by one caller, and the reader threads; a shell ends
\* when close kills it.
NextTable ==
    \/ Command(1)
    \/ \E i \in Ids : Reader(i)

SpecTable == Init /\ [][NextTable]_vars

\* Create and close by one caller, the reader threads and the shells: what
\* decides whether a reader thread ends. A write leaves the child, the
\* stream and the thread as they are.
NextEnd ==
    \/ CreateCall(1) \/ OpenPty(1) \/ SpawnCommand(1) \/ TakeWriter(1)
    \/ CloneReader(1) \/ LockNextId(1) \/ ReadNextId(1) \/ IncrNextId(1)
    \/ SpawnReader(1) \/ AssembleSession(1) \/ InsertSession(1)
    \/ CloseCall(1) \/ CloseRemove(1) \/ CloseKill(1) \/ DropMaster(1)
    \/ DropWriter(1)
    \/ Return(1)
    \/ \E i \in Ids : Reader(i)
    \/ \E i \in Ids : ChildExit(i)

\* NextEnd under fair scheduling: a close that has removed its session goes
\* on to kill and release (its task is polled to completion), a reader
\* thread that has read emits, and a read on the stream of a shell that is
\* gone returns. A read on the stream of a running shell may block for ever,
\* and nothing obliges a caller to start a command or a shell to exit.
SpecEndFair ==
    /\ Init /\ [][NextEnd]_vars
    /\ WF_vars(CloseKill(1) \/ DropMaster(1) \/ DropWriter(1))
    /\ \A i \in Ids : WF_vars(ReaderRead(i) /\ pty[i].child # "running")
    /\ \A i \in Ids : WF_vars(ReaderEmit(i))

\* The scan of the process list as a function of its inputs: session 1 is in
\* the table with a known pid, and a foreground query on it has obtained a
\* shell name and a list outcome drawn from the sets below.
ScanPids == {PidOf(1), PidOf(1) + 1}
ScanStats == {<<"S">>, <<"S", "+">>}
ScanComms == {<<"-", "z">>, <<"/", "b", "/", "v">>, <<"v">>}
ScanNames == {<<"z">>, <<"v">>, Placeholder}
\* Lines of three parts, one of two parts, and one whose command has a blank.
ScanLines ==
    {<<p, s, n>> : p \in ScanPids, s \in ScanStats, n \in ScanComms}
      \cup {<<PidOf(1) + 1, <<"S", "+">>>>,
            <<PidOf(1) + 1, <<"S", "+">>, <<"/", "a">>, <<"b">>>>}
ScanLists ==
    UNION {[1..n -> ScanLines] : n \in 0..MaxLines}
ScanOutcomes == {Failed} \cup {[ok |-> TRUE, out |-> l] : l \in ScanLists}

InitResolve ==
    /\ next_id = 2
    /\ sessions = Insert(<<>>, 1, Session(1, PidOf(1)))
    /\ lockId = None
    /\ lockTab = None
    /\ pc = [c \in Callers |-> IF c = 1 THEN "fg_scan" ELSE "idle"]
    /\ arg = [c \in Callers |->
                IF c = 1 THEN [op |-> "foreground", id |-> 1, size |-> <<0, 0>>]
                ELSE NoArg]
    /\ \E n \in ScanNames, o \in ScanOutcomes :
         loc = [c \in Callers |->
                  IF c = 1
                  THEN [NoLoc EXCEPT !.pid = PidOf(1), !.name = n, !.out = o,
                                     !.q = <<"comm", "tty", "list">>]
                  ELSE NoLoc]
    /\ res = [c \in Callers |-> NoRes]
    /\ pty = [i \in Ids |->
                IF i = 1
                THEN [child |-> "running", master |-> "open", writer |-> "open",
                      size |-> <<24, 80>>]
                ELSE NoPty]
    /\ rpc = [i \in Ids |-> IF i = 1 THEN "reading" ELSE "none"]
    /\ buf = [i \in Ids |-> <<>>]
    /\ reads = [i \in Ids |-> <<>>]
    /\ events = [i \in Ids |-> <<>>]
    /\ created = <<1>>

NextResolve == FgScan(1) \/ FgAgain(1)

SpecResolve == InitResolve /\ [][NextResolve]_vars

\* The steps at which caller c acquires a lock: state.next_id.lock().await
\* and state.sessions.lock().await.
Acquire(c) ==
    \/ LockNextId(c) \/ InsertSession(c) \/ WriteLookup(c) \/ ResizeLookup(c)
    \/ CloseRemove(c) \/ FgLookup(c)

\* The other steps of a command that has started: its OS calls and its
\* return.
Run(c) ==
    \/ OpenPty(c) \/ SpawnCommand(c) \/ TakeWriter(c) \/ CloneReader(c)
    \/ ReadNextId(c) \/ IncrNextId(c) \/ SpawnReader(c) \/ AssembleSession(c)
    \/ WriteAll(c) \/ Flush(c) \/ ResizeMaster(c)
    \/ CloseKill(c) \/ DropMaster(c) \/ DropWriter(c)
    \/ FgComm(c) \/ FgTty(c) \/ FgList(c)
    \/ Return(c)

\* The commands of all callers, interleaved step by step; a shell ends when
\* close kills it. No lock step reads the state of a shell.
NextLocks == \E c \in Callers : Command(c)

\* NextLocks under fair scheduling: a started command's OS calls return and
\* its task is polled (weak fairness on Run), and a task waiting for a lock
\* gets it if the lock is free again and again (strong fairness on Acquire:
\* the async mutex hands the lock to its waiters in arrival order). Nothing
\* obliges a caller to start a command.
SpecLocksFair ==
    /\ Init /\ [][NextLocks]_vars
    /\ \A c \in Callers : WF_vars(Run(c))
    /\ \A c \in Callers : SF_vars(Acquire(c))

\* ================================================================ claims

IsCreating(c) == arg[c].op = "create"
Returned(c, op) == pc[c] = "ret" /\ arg[c].op = op

\* C1: the ids create returns are strictly increasing in return order, the
\* first one is 1, and none is returned twice, whatever closes, writes and
\* resizes run in between; an id about to be returned is greater than every
\* id returned before.
C1_IdsStrictlyIncreasing ==
    /\ \A k \in 1..Len(created) : k > 1 => created[k - 1] < created[k]
    /\ created # <<>> => created[1] = 1
    /\ \A c \in Callers :
         Returned(c, "create") /\ res[c].ok =>
           /\ \A k \in 1..Len(created) : created[k] < res[c].val
           /\ created = <<>> => res[c].val = 1

\* The second create has returned after the first session was closed.
C1_Witness ==
    /\ created = <<1, 2>>
    /\ 1 \notin DOMAIN sessions
    /\ pty[1].master = "dropped"

NotFound(c) == ~res[c].ok /\ res[c].err = "Session not found"

C3_AbsentIdNotFound ==
    [][\A c \in Callers :
         /\ (pc[c] \in {"w_lock", "r_lock"} /\ pc'[c] # pc[c]
               /\ arg[c].id \notin DOMAIN sessions) =>
               /\ pc'[c] = "ret"
               /\ ~res'[c].ok /\ res'[c].err = "Session not found"
               /\ UNCHANGED <<sessions, next_id, pty, rpc, events>>
         /\ (arg[c].op \in {"write", "resize"} /\ pc[c] = "ret" /\ NotFound(c)
               /\ pc'[c] # "ret") =>
               /\ pc'[c] = "idle"
               /\ UNCHANGED <<sessions, next_id, pty, rpc, events>>
      ]_vars

\* A write on the id of a session that was closed earlier has returned
\* 'Session not found', while an id that was never allocated remains.
C3_Witness ==
    \E c \in Callers :
      /\ Returned(c, "write") /\ NotFound(c)
      /\ pty[arg[c].id].writer = "dropped"
      /\ next_id <= MaxId

\* C4: close returns success for every id; a close that finds no entry
\* (a second close, or an id never in the table) returns success at once,
\* without a termination request, and changes neither the table nor any
\* session's pseudo-terminal.
C4_CloseIdempotent ==
    [][\A c \in Callers :
         /\ (arg[c].op = "close" /\ pc'[c] = "ret") => res'[c].ok
         /\ (pc[c] = "cl_remove" /\ pc'[c] # "cl_remove"
               /\ arg[c].id \notin DOMAIN sessions) =>
               /\ pc'[c] = "ret"
               /\ UNCHANGED <<sessions, next_id, pty, rpc, events>>
      ]_vars

\* A second close of a closed session has returned success, having taken
\* no session out of the table.
C4_Witness ==
    \E c \in Callers :
      /\ Returned(c, "close") /\ res[c].ok
      /\ loc[c].sess = NoSession
      /\ pty[arg[c].id].writer = "dropped"

\* The session of id i is live: its shell runs, its reader thread was
\* started and both handles are open.
Live(i) ==
    /\ pty[i].child = "running"
    /\ rpc[i] # "none"
    /\ pty[i].master = "open"
    /\ pty[i].writer = "open"

\* C5 (as stated): an id is in the table if and only if its session is live.
C5_TableIffLive ==
    \A i \in Ids : i \in DOMAIN sessions <=> Live(i)

\* C5 (amended): every id in the table names a session whose reader thread
\* was started and whose pty-controller and writer handles are not released,
\* and it is stored under its own id. Nothing more holds: the shell of an
\* entry may have ended, and a live session is outside the table between
\* the start of its reader thread and its insertion and between close's
\* removal and its release of the handles.
C5_EntriesHaveValidHandles ==
    \A i \in DOMAIN sessions :
      /\ sessions[i].master = i /\ sessions[i].writer = i /\ sessions[i].child = i
      /\ rpc[i] # "none"
      /\ pty[i].master = "open"
      /\ pty[i].writer = "open"

\* An entry whose shell has exited on its own is still in the table, next to
\* a closed session that is not.
C5_Witness ==
    /\ 2 \in DOMAIN sessions
    /\ pty[2].child = "exited"
    /\ 1 \notin DOMAIN sessions
    /\ pty[1].master = "dropped"

Using(c) == pc[c] \in {"w_write_all", "w_flush", "r_resize"}
Closing(c) == pc[c] \in {"cl_kill", "cl_drop_master", "cl_drop_writer"}

\* C6: while a write or resize uses a session's writer or controller, the
\* session is in the table under the id it looked up, the handle is open,
\* and no close has taken that session out or is releasing it; and a close
\* that holds a removed session has left no entry for its id behind, so a
\* later lookup of that id fails.
C6_RemovalAuthoritative ==
    /\ \A c \in Callers :
         Using(c) =>
           /\ arg[c].id \in DOMAIN sessions
           /\ sessions[arg[c].id] = loc[c].sess
           /\ pty[loc[c].sess.writer].writer = "open"
           /\ pty[loc[c].sess.master].master = "open"
           /\ \A d \in Callers : Closing(d) => loc[d].sess.master # loc[c].sess.master
    /\ \A d \in Callers : Closing(d) => arg[d].id \notin DOMAIN sessions

\* A write is in its I/O on a session while a concurrent close of the same
\* id waits to remove it.
C6_Witness ==
    \E c, d \in Callers :
      /\ pc[c] = "w_write_all"
      /\ pc[d] = "cl_remove"
      /\ arg[c].id = arg[d].id

FailedCreate(c) == Returned(c, "create") /\ ~res[c].ok

\* C7: every step of a create up to and including a failed OS step leaves
\* the table, the counter, the reader threads and the events unchanged; a
\* failed create has allocated no id; and events exist only for ids whose
\* session is or was in the table or is being inserted.
C7_FailedCreateLeavesNothing ==
    /\ [][\A c \in Callers :
            (pc[c] \in {"c_openpty", "c_spawn", "c_take_writer", "c_clone_reader"}
               /\ pc'[c] # pc[c]) =>
              UNCHANGED <<sessions, next_id, rpc, events, pty>>
       ]_vars
    /\ [](\A c \in Callers : FailedCreate(c) => loc[c] = NoLoc)
    /\ [](\A i \in Ids :
            (events[i] # <<>> \/ rpc[i] # "none") =>
              \/ i \in DOMAIN sessions
              \/ \E c \in Callers : IsCreating(c) /\ loc[c].id = i
              \/ \E c \in Callers : Closing(c) /\ loc[c].sess.master = i
              \/ pty[i].master = "dropped")

\* A create has failed at its last OS step while the table holds a session.
C7_Witness ==
    \E c \in Callers :
      /\ FailedCreate(c)
      /\ res[c].err = "Failed to get reader"
      /\ DOMAIN sessions = {1}
      /\ rpc[2] = "none"

IoFailed(c) ==
    /\ pc[c] = "ret" /\ ~res[c].ok
    /\ res[c].err \in {"Write error", "Flush error", "Resize error"}

\* C8: the step in which a write, flush or resize fails changes neither the
\* table nor any pseudo-terminal; when the failure is returned the id is in
\* the table with the entry the call looked up, and the return leaves it so.
C8_FailedIoKeepsEntry ==
    /\ [][\A c \in Callers :
            /\ (Using(c) /\ pc'[c] = "ret" /\ ~res'[c].ok) =>
                 UNCHANGED <<sessions, pty, next_id>>
            /\ (IoFailed(c) /\ pc'[c] # "ret") =>
                 /\ arg[c].id \in DOMAIN sessions'
                 /\ sessions'[arg[c].id] = loc[c].sess
       ]_vars
    /\ [](\A c \in Callers :
            IoFailed(c) =>
              /\ arg[c].id \in DOMAIN sessions
              /\ sessions[arg[c].id] = loc[c].sess)

\* A flush has failed on a session and the failure is about to be returned.
C8_Witness ==
    \E c \in Callers :
      /\ IoFailed(c)
      /\ res[c].err = "Flush error"
      /\ arg[c].id \in DOMAIN sessions

IsOutput(e) == e.kind = "pty-output"
IsEnd(e) == e.kind = "pty-end"
Outputs(i) == SelectSeq(events[i], IsOutput)
Ends(i) == SelectSeq(events[i], IsEnd)
\* The reads of session i whose event has been emitted: all of them, but
\* the last while the reader is between that read and its emit.
Emitted(i) ==
    IF rpc[i] = "got_n" THEN SubSeq(reads[i], 1, Len(reads[i]) - 1) ELSE reads[i]

\* C9: for each session the payloads of its output events are, one for one
\* and in the same order, the decoded texts of the chunks its reader thread
\* has read and emitted: none reordered, duplicated or dropped.
C9_OutputInReadOrder ==
    \A i \in Ids :
      /\ Len(Outputs(i)) = Len(Emitted(i))
      /\ \A k \in 1..Len(Emitted(i)) :
           Outputs(i)[k].text = from_utf8_lossy(Emitted(i)[k])

\* A session has emitted two different chunks, the first one read first,
\* while the other session has emitted one.
C9_Witness ==
    /\ reads[1] = <<<<ByteLead, ByteCont, ByteA>>, <<ByteCont, ByteLead>>>>
    /\ Len(Outputs(1)) = 2
    /\ Outputs(1)[1].text = <<CharE, ByteA>>
    /\ Outputs(1)[2].text = <<Replacement, Replacement>>
    /\ Len(Outputs(2)) = 1

\* C10: a session has at most one end event; it has one exactly when its
\* reader thread has left the loop; the end event is the last event, so all
\* output events precede it; and an end event is appended only in a step
\* that follows a read of zero bytes or a read error.
C10_EndOnceAndLast ==
    /\ [](\A i \in Ids :
            /\ Len(Ends(i)) <= 1
            /\ Len(Ends(i)) = 1 <=> rpc[i] = "done"
            /\ \A k \in 1..Len(events[i]) : IsEnd(events[i][k]) => k = Len(events[i]))
    /\ [][\A i \in Ids :
            events'[i] # events[i] =>
              IF rpc[i] \in {"got_0", "got_err"}
              THEN events'[i] = Append(events[i], EndEvent) /\ rpc'[i] = "done"
              ELSE rpc[i] = "got_n" /\ IsOutput(events'[i][Len(events'[i])])
       ]_vars

\* A session's stream has ended after two output events, on a read of zero
\* bytes from a shell that close killed.
C10_Witness ==
    \E i \in Ids :
      /\ Len(events[i]) = 3
      /\ IsOutput(events[i][1]) /\ IsOutput(events[i][2]) /\ IsEnd(events[i][3])
      /\ rpc[i] = "done"
      /\ pty[i].child = "killed"

\* The caller's close found the session and took it out of the table.
TookSession(c) == arg[c].op = "close" /\ loc[c].sess # NoSession

\* C11: a close that found its session returns success with the id gone
\* from the table, also when the shell had already exited: the termination
\* request on an exited shell changes nothing and close goes on to release
\* the handles.
C11_CloseAfterExit ==
    /\ [](\A c \in Callers :
            /\ TookSession(c) => arg[c].id \notin DOMAIN sessions
            /\ Returned(c, "close") => res[c].ok)
    /\ [][\A c \in Callers :
            (pc[c] = "cl_kill" /\ pc'[c] # "cl_kill") =>
              /\ pc'[c] = "cl_drop_master"
              /\ pty[loc[c].sess.child].child = "exited" => pty' = pty
       ]_vars

\* A close of a session whose shell had exited on its own has returned
\* success; the entry is gone and the handles are released.
C11_Witness ==
    \E c \in Callers :
      /\ Returned(c, "close") /\ res[c].ok
      /\ TookSession(c)
      /\ pty[arg[c].id].child = "exited"
      /\ pty[arg[c].id].writer = "dropped"
      /\ arg[c].id \notin DOMAIN sessions

\* C12: the step in which a resize succeeds changes the size of the
\* pseudo-terminal of its id and nothing else: the table with every entry's
\* writer, process handle and pid, the reader threads, the shells and every
\* other pseudo-terminal stay as they are; and a write in progress on an id
\* uses the writer and reaches the process that were created under that id.
C12_ResizeOnlyResizes ==
    /\ [][\A c \in Callers :
            (pc[c] = "r_resize" /\ pc'[c] = "ret" /\ res'[c].ok) =>
              /\ UNCHANGED <<sessions, rpc, next_id, events>>
              /\ pty' = [pty EXCEPT ![arg[c].id].size = arg[c].size]
       ]_vars
    /\ [](\A c \in Callers :
            pc[c] \in {"w_write_all", "w_flush"} =>
              /\ loc[c].sess.writer = arg[c].id
              /\ loc[c].sess.child = arg[c].id
              /\ loc[c].sess = sessions[arg[c].id])

\* A write is in progress on a session that was created 24x80 and resized
\* to 40x120, while the other session still has its first size.
C12_Witness ==
    \E c \in Callers :
      /\ pc[c] = "w_flush"
      /\ pty[arg[c].id].size = <<40, 120>>
      /\ \E j \in DOMAIN sessions : j # arg[c].id /\ pty[j].size = <<24, 80>>

\* C13: once close has removed the entry, each of its remaining steps (the
\* termination request, the two releases, the return) can be taken whatever
\* the reader thread is doing, and none of them changes the reader thread
\* or the events: close neither waits for the reader nor ends it.
C13_CloseNeverWaits ==
    /\ [](\A c \in Callers :
            /\ pc[c] = "cl_kill" => ENABLED CloseKill(c)
            /\ pc[c] = "cl_drop_master" => ENABLED DropMaster(c)
            /\ pc[c] = "cl_drop_writer" => ENABLED DropWriter(c)
            /\ Returned(c, "close") => ENABLED Return(c))
    /\ [][\A c \in Callers :
            (arg[c].op = "close" /\ pc'[c] # pc[c]) => UNCHANGED <<rpc, buf, events>>
       ]_vars

\* Close has returned and its caller is idle again, the id is gone from the
\* table and its handles are released, and the reader thread of that id is
\* still in its loop with no end event emitted.
C13_Witness ==
    \E i \in Ids :
      /\ \A c \in Callers : pc[c] = "idle"
      /\ i \notin DOMAIN sessions
      /\ pty[i].writer = "dropped"
      /\ pty[i].child = "killed"
      /\ rpc[i] = "reading"
      /\ Ends(i) = <<>>

\* Positions at which a command waits for the table lock.
TableWait == {"w_lock", "r_lock", "cl_remove", "fg_lookup", "c_insert"}
\* Positions of the foreground query's blocking task.
Querying(c) == pc[c] \in {"fg_comm", "fg_tty", "fg_list"}

\* C14 (as stated): no command is in a pseudo-terminal write, flush or
\* resize call while it holds the table lock.
C14_NoIoUnderLock ==
    \A c \in Callers : Using(c) => lockTab # c

\* C14 (amended): write and resize hold the table lock throughout their
\* write, flush and resize calls; close and the foreground query do their OS
\* work (kill, releases, ps queries) without it; and while the lock is held
\* no other command gets past its lookup, insert or remove.
C14_IoUnderLock ==
    /\ [](\A c \in Callers :
            /\ Using(c) => lockTab = c
            /\ (Closing(c) \/ Querying(c)) => lockTab # c)
    /\ [][\A d \in Callers :
            (pc[d] \in TableWait /\ lockTab # None) => pc'[d] = pc[d]
       ]_vars

\* A write is in its I/O on one session, holding the table lock, while a
\* close of the other session waits for the lock.
C14_Witness ==
    \E c, d \in Callers :
      /\ pc[c] = "w_write_all" /\ lockTab = c
      /\ pc[d] = "cl_remove"
      /\ arg[d].id # arg[c].id
      /\ arg[d].id \in DOMAIN sessions

\* The caller's create has taken its id from the counter.
Allocated(c) == IsCreating(c) /\ loc[c].id # None

\* C15: under every interleaving of creates, no two calls hold the same id,
\* the ids returned are pairwise distinct, a create that returns id finds
\* the table mapping id to the session it assembled, and every id returned
\* earlier is still in the table unless a close took it out.
C15_ConcurrentCreatesDistinct ==
    /\ \A c, d \in Callers :
         (c # d /\ Allocated(c) /\ Allocated(d)) => loc[c].id # loc[d].id
    /\ \A j, k \in 1..Len(created) : j # k => created[j] # created[k]
    /\ \A c \in Callers :
         (Returned(c, "create") /\ res[c].ok) =>
           /\ res[c].val = loc[c].id
           /\ res[c].val \in DOMAIN sessions
           /\ sessions[res[c].val] = loc[c].sess
           /\ sessions[res[c].val].master = res[c].val
    /\ \A k \in 1..Len(created) :
         \/ created[k] \in DOMAIN sessions
         \/ \E c \in Callers : TookSession(c) /\ arg[c].id = created[k]
         \/ pty[created[k]].writer = "dropped"

\* Two creates run side by side: one is about to return id 1, which the
\* table maps, while the other waits for the counter's lock.
C15_Witness ==
    \E c, d \in Callers :
      /\ Returned(c, "create") /\ res[c].ok /\ res[c].val = 1
      /\ DOMAIN sessions = {1}
      /\ lockId = c
      /\ pc[d] = "c_lock_id"

\* C16: the set of ids in the table changes only in the step in which a
\* create inserts the id it allocated and is about to return, which adds
\* exactly that id, and in the step in which a close removes its id, which
\* removes exactly that id; in every step the entries that stay are
\* unchanged. No step of write, resize, the foreground query or a reader
\* thread changes the table.
C16_OnlyCreateAndCloseChangeTable ==
    [][/\ DOMAIN sessions' # DOMAIN sessions =>
            \E c \in Callers :
              \/ /\ pc[c] = "c_insert" /\ pc'[c] = "ret"
                 /\ res'[c].ok /\ res'[c].val = loc[c].id
                 /\ loc[c].id \notin DOMAIN sessions
                 /\ DOMAIN sessions' = DOMAIN sessions \cup {loc[c].id}
              \/ /\ pc[c] = "cl_remove" /\ pc'[c] = "cl_kill"
                 /\ DOMAIN sessions' = DOMAIN sessions \ {arg[c].id}
       /\ \A i \in DOMAIN sessions \cap DOMAIN sessions' : sessions'[i] = sessions[i]
       /\ (\E c \in Callers :
             arg[c].op \in {"write", "resize", "foreground"} /\ pc'[c] # pc[c])
            => sessions' = sessions
       /\ rpc' # rpc => sessions' = sessions
      ]_vars

\* A session's reader thread has emitted the end event and left its loop,
\* and the entry is still in the table, after a write, a resize and a
\* foreground query on it.
C16_Witness ==
    \E i \in DOMAIN sessions :
      /\ rpc[i] = "done"
      /\ Len(Ends(i)) = 1
      /\ pty[i].size = <<40, 120>>
      /\ Returned(1, "foreground") /\ arg[1].id = i /\ res[1].ok

\* C17: once a close has removed the session of id i from the table, the
\* reader thread of i eventually leaves its loop, having emitted the end
\* event.
C17_ReaderEndsAfterClose ==
    \A i \in Ids :
      (\E c \in Callers : pc[c] = "cl_kill" /\ arg[c].id = i)
        ~> (rpc[i] = "done" /\ Len(Ends(i)) = 1)

\* A close has killed a running shell and released the handles, and the
\* reader thread of that session has left its loop on a read of zero bytes.
C17_Witness ==
    \E i \in Ids :
      /\ pty[i].child = "killed"
      /\ pty[i].writer = "dropped"
      /\ i \notin DOMAIN sessions
      /\ rpc[i] = "done"
      /\ Len(Ends(i)) = 1
      /\ Len(Outputs(i)) = MaxReads

ZeroPid(c) == Returned(c, "foreground") /\ res[c].ok /\ loc[c].pid = 0

\* C18: a foreground query on a session whose recorded pid is zero returns
\* the placeholder name and has run none of the three process queries.
C18_ZeroPidNoQuery ==
    \A c \in Callers :
      ZeroPid(c) => (res[c].val = Placeholder /\ loc[c].q = <<>>)

\* C18, as the code has it: with a recorded pid of zero the command-name
\* query has run, the terminal and list queries have not, and the result is
\* the name that query gave, the placeholder only when it failed.
C18_ZeroPidQueriesName ==
    /\ [][\A c \in Callers :
            (pc[c] = "fg_comm" /\ pc'[c] # pc[c] /\ loc[c].pid = 0) =>
              /\ pc'[c] = "ret"
              /\ \E o \in PsComm : res'[c] = Ok(ShellName(o))
         ]_vars
    /\ [](\A c \in Callers : ZeroPid(c) => loc[c].q = <<"comm">>)

\* A foreground query on a session with pid zero has returned a name other
\* than the placeholder.
C18_Witness ==
    \E c \in Callers :
      /\ ZeroPid(c)
      /\ res[c].val = <<"z">>
      /\ loc[c].q = <<"comm">>

\* r is s without its path prefix and without one leading '-'.
IsNormalized(r, s) ==
    \E k \in 0..Len(s) :
      LET base == SubSeq(s, k + 1, Len(s))
      IN  /\ k = 0 \/ s[k] = "/"
          /\ \A j \in 1..Len(base) : base[j] # "/"
          /\ r = IF base # <<>> /\ base[1] = "-"
                 THEN SubSeq(base, 2, Len(base)) ELSE base

\* Entry k of the list qualifies: it has a pid, a state flag and a command
\* name, the flag marks the foreground process group, the pid is not the
\* shell's, and the normalized command name is not the shell name.
Qualifies(lines, k, shell_pid, shell_name) ==
    /\ Len(lines[k]) >= 3
    /\ \E j \in 1..Len(lines[k][2]) : lines[k][2][j] = "+"
    /\ lines[k][1] # shell_pid
    /\ ~IsNormalized(shell_name, lines[k][3])

Scanned(c) ==
    /\ Returned(c, "foreground")
    /\ res[c].ok
    /\ loc[c].q = <<"comm", "tty", "list">>

\* C19: the scan returns the normalized name of the first qualifying entry
\* of the list, the shell name when no entry qualifies or the list query
\* failed, and the same name again when it is repeated on the same data.
C19_FirstQualifyingOrShell ==
    /\ [](\A c \in Callers :
            Scanned(c) =>
              LET o == loc[c].out
                  Q == IF o.ok
                       THEN {k \in 1..Len(o.out) :
                               Qualifies(o.out, k, loc[c].pid, loc[c].name)}
                       ELSE {}
              IN  IF Q = {}
                  THEN res[c].val = loc[c].name
                  ELSE \E k \in Q :
                         /\ \A j \in Q : k <= j
                         /\ IsNormalized(res[c].val, o.out[k][3]))
    /\ [][\A c \in Callers :
            (pc[c] = "fg_scan" /\ pc'[c] = "ret" /\ res[c].err = "") =>
              res'[c] = res[c]
         ]_vars

\* A scan has returned the name of the second entry of a list whose
\* first entry is a foreground process with the shell's own name.
C19_Witness ==
    \E c \in Callers :
      /\ Scanned(c)
      /\ loc[c].name = <<"z">>
      /\ loc[c].out.ok
      /\ Len(loc[c].out.out) = 2
      /\ loc[c].out.out[1] = <<PidOf(1) + 1, <<"S", "+">>, <<"-", "z">>>>
      /\ loc[c].out.out[2] = <<PidOf(1) + 1, <<"S", "+">>, <<"/", "b", "/", "v">>>>
      /\ res[c].val = <<"v">>

\* Positions at which a command waits for the id-counter lock.
IdWait == {"c_lock_id"}

\* C20: the id-counter lock is only ever held by a create; whoever waits for
\* the id-counter lock does not hold the table lock (the two are never
\* taken in the order table, counter); a create takes the table lock while
\* it holds the counter lock; and every command that has started returns.
C20_NoDeadlock ==
    /\ [](\A c \in Callers :
            /\ lockId = c => IsCreating(c)
            /\ pc[c] \in IdWait => lockTab # c
            /\ (IsCreating(c) /\ lockTab = c) => lockId = c)
    /\ \A c \in Callers : (pc[c] # "idle") ~> (pc[c] = "idle")

\* A create holds the counter lock and waits for the table lock, which a
\* write in its I/O holds.
C20_Witness ==
    \E c, d \in Callers :
      /\ IsCreating(c) /\ lockId = c /\ pc[c] = "c_insert"
      /\ lockTab = d /\ pc[d] = "w_write_all"

====
